---- MODULE Spec2Model ----
(***************************************************************************)
(* Model of model/television.py: the Series / Season / Episode wrappers    *)
(* around knowledge-graph items, their ordinal accessors, .parent and the  *)
(* layered successor resolution .next.                                     *)
(*                                                                         *)
(* The item store is the environment: curators add statements to items    *)
(* while no call is running (AddStatement).  A call runs on the item Subj, *)
(* wrapped as an Episode, a Season or a Series.  The statements curators   *)
(* may add are listed in Vocabulary, written around Subj: its own links    *)
(* and ordinals, two sibling candidates Q2 and Q3, and two container       *)
(* items Q4 and Q5 used as series and season targets.                      *)
(*                                                                         *)
(* Every value of a link property resolves to an item of the store, and    *)
(* fetching an item succeeds.  The graph-query service is reliable under   *)
(* Spec and may fail at any query under SpecFail.  An ordinal qualifier is *)
(* a text, kept as a sequence of characters: int() reads it (ParseInt) and *)
(* the f-strings of the queries print integers back (Str).                 *)
(*                                                                         *)
(* A call is made either on a wrapper built for that call alone (wrapper = *)
(* "none": it reads the store as it is) or on a wrapper that Construct     *)
(* built earlier and the caller kept: that one holds the content its item  *)
(* had when it was fetched, and so does every parent item a wrapper was    *)
(* built around since (fetched).  Under SpecEntity curators edit the graph *)
(* while the wrapper lives.                                                *)
(***************************************************************************)
EXTENDS Integers, Sequences, FiniteSets, TLC

VARIABLES store, pc, op, cls, gens, attempted, result,
          wrapper, fetched, report, seen, chain

vars == <<store, pc, op, cls, gens, attempted, result,
          wrapper, fetched, report, seen, chain>>

\* Most statements the curators put into the graph before and between calls.
MaxFacts == 4

Items == {"Q1", "Q2", "Q3", "Q4", "Q5"}

\* The item every call is made on.
Subj == "Q1"

\* What an f-string prints for a None identifier.
NoneId == "None"

----------------------------------------------------------------------------
\* Strings of the ordinal qualifier, as sequences of characters.

Digits == <<"0", "1", "2", "3", "4", "5", "6", "7", "8", "9">>

IsDigit(ch) == \E d \in 1..10 : Digits[d] = ch

DigitVal(ch) == (CHOOSE d \in 1..10 : Digits[d] = ch) - 1

RECURSIVE DigitsVal(_)
DigitsVal(s) ==
    IF s = <<>> THEN 0
    ELSE 10 * DigitsVal(SubSeq(s, 1, Len(s) - 1)) + DigitVal(s[Len(s)])

AllDigits(s) == s /= <<>> /\ \A k \in 1..Len(s) : IsDigit(s[k])

\* int(str): an optional sign followed by decimal digits; anything else
\* raises ValueError (ok = FALSE).
ParseInt(s) ==
    IF s /= <<>> /\ s[1] \in {"+", "-"}
    THEN LET r == Tail(s) IN
         IF AllDigits(r)
         THEN [ok |-> TRUE, val |-> IF s[1] = "-" THEN 0 - DigitsVal(r) ELSE DigitsVal(r)]
         ELSE [ok |-> FALSE, val |-> 0]
    ELSE IF AllDigits(s) THEN [ok |-> TRUE, val |-> DigitsVal(s)]
         ELSE [ok |-> FALSE, val |-> 0]

RECURSIVE StrNat(_)
StrNat(n) ==
    IF n < 10 THEN <<Digits[n + 1]>>
    ELSE StrNat(n \div 10) \o <<Digits[(n % 10) + 1]>>

\* The decimal text an f-string prints for an integer.
Str(n) == IF n < 0 THEN <<"-">> \o StrNat(0 - n) ELSE StrNat(n)

----------------------------------------------------------------------------
\* Outcomes of a call: nothing yet, None, a wrapped item, an integer, or a
\* raised exception.

Pending == [tag |-> "pending", cls |-> "", id |-> "", val |-> 0, exc |-> ""]
NoneR == [tag |-> "none", cls |-> "", id |-> "", val |-> 0, exc |-> ""]
Entity(c, i) == [tag |-> "entity", cls |-> c, id |-> i, val |-> 0, exc |-> ""]
IntR(n) == [tag |-> "int", cls |-> "", id |-> "", val |-> n, exc |-> ""]
Raise(e) == [tag |-> "raise", cls |-> "", id |-> "", val |-> 0, exc |-> e]

----------------------------------------------------------------------------
\* The item store.

\* An item without statements.  The link properties hold statements with a
\* target and qualifiers; props lists the other properties that have a
\* value, instance_of the kinds asserted, labels the languages labelled.
NoFacts ==
    [followed_by |-> <<>>, follows |-> <<>>, part_of_series |-> <<>>, season_link |-> <<>>,
     props |-> <<>>, instance_of |-> <<>>, labels |-> <<>>]

Link(t) == [target |-> t, ordinals |-> <<>>]
Ord(t, s) == [target |-> t, ordinals |-> <<s>>]

Statement(i, p, v) == [item |-> i, prop |-> p, value |-> v]

Vocabulary ==
    { Statement("Q1", "followed_by", Link("Q2")),
      Statement("Q1", "followed_by", Link("Q3")),
      Statement("Q2", "follows", Link("Q1")),
      Statement("Q3", "follows", Link("Q1")),
      Statement("Q2", "follows", Link("Q3")),
      Statement("Q1", "part_of_series", Link("Q4")),
      Statement("Q1", "part_of_series", Ord("Q4", <<"1">>)),
      Statement("Q1", "part_of_series", Ord("Q4", <<"0", "1">>)),
      Statement("Q1", "part_of_series", Ord("Q4", <<"1", "a">>)),
      Statement("Q1", "season_link", Link("Q5")),
      Statement("Q1", "season_link", Ord("Q5", <<"1">>)),
      Statement("Q1", "season_link", Ord("Q5", <<"1", "a">>)),
      Statement("Q2", "part_of_series", Link("Q4")),
      Statement("Q2", "part_of_series", Ord("Q4", <<"2">>)),
      Statement("Q2", "part_of_series", Ord("Q4", <<"0", "2">>)),
      Statement("Q2", "part_of_series", Ord("Q5", <<"2">>)),
      Statement("Q2", "season_link", Ord("Q5", <<"2">>)),
      Statement("Q2", "season_link", Ord("Q5", <<"0", "2">>)),
      Statement("Q2", "season_link", Ord("Q4", <<"2">>)),
      Statement("Q3", "part_of_series", Ord("Q4", <<"2">>)),
      Statement("Q3", "season_link", Ord("Q5", <<"2">>)),
      Statement("Q5", "part_of_series", Ord("Q4", <<"2">>)),
      Statement("Q5", "instance_of", "season") }

NumFacts(st) ==
    LET n(i) == Len(st[i].followed_by) + Len(st[i].follows)
                + Len(st[i].part_of_series) + Len(st[i].season_link)
                + Len(st[i].props) + Len(st[i].instance_of) + Len(st[i].labels)
    IN n("Q1") + n("Q2") + n("Q3") + n("Q4") + n("Q5")

Has(st, s) == \E k \in 1..Len(st[s.item][s.prop]) : st[s.item][s.prop][k] = s.value

\* An item page no wrapper was built around yet.
Unfetched == [loaded |-> FALSE, facts |-> NoFacts]

\* content with every read going back to the store.
content_live(i) == store[i]

\* itempage.get(): the content of an item as a wrapper sees it: what was
\* fetched when a wrapper was first built around the page, and the store's
\* content for a page about to be fetched.
content(i) == IF fetched[i].loaded THEN fetched[i].facts ELSE store[i]

\* The pages S get a wrapper built around them: each is fetched unless a
\* kept wrapper's statements already hold its content.
Fetch(S) ==
    IF wrapper = "none" THEN fetched
    ELSE [i \in Items |->
            IF i \in S /\ ~fetched[i].loaded
            THEN [loaded |-> TRUE, facts |-> store[i]]
            ELSE fetched[i]]

\* The page a returned wrapper was built around, if any.
Wrapped(r) == IF r.tag = "entity" THEN {r.id} ELSE {}

\* BaseType.claims: the statements of one property, in the order the item
\* lists them; a property is "in claims" when it has at least one.
claims(i, p) == content(i)[p]


\* [0].getTarget() on a property's statement list.
first_target(cl) == cl[1].target

\* int with the failure answered by None instead of an exception.
int_lenient(s) == IF ParseInt(s).ok THEN IntR(ParseInt(s).val) ELSE NoneR

\* int(...) of a qualifier string.
int(s) == IF ParseInt(s).ok THEN IntR(ParseInt(s).val) ELSE Raise("ValueError")

\* ordinal_of reading the last statement instead of the first.
ordinal_of_last(cl) ==
    IF cl = <<>> THEN NoneR
    ELSE IF cl[Len(cl)].ordinals = <<>> THEN NoneR
    ELSE int(cl[Len(cl)].ordinals[1])

\* The body shared by ordinal_in_series and ordinal_in_season: the ordinal
\* qualifier of the first statement of the parent link.
ordinal_of(cl) ==
    IF cl = <<>> THEN NoneR
    ELSE IF cl[1].ordinals = <<>> THEN NoneR
    ELSE int(cl[1].ordinals[1])

ordinal_in_series(i) == ordinal_of(claims(i, "part_of_series"))

\* ordinal_in_season never reading the qualifier.
ordinal_in_season_unread(i) == NoneR

ordinal_in_season(i) == ordinal_of(claims(i, "season_link"))

part_of_the_series(i) ==
    IF claims(i, "part_of_series") = <<>> THEN NoneId
    ELSE first_target(claims(i, "part_of_series"))

season(i) ==
    IF claims(i, "season_link") = <<>> THEN NoneId
    ELSE first_target(claims(i, "season_link"))

\* BaseType.parent following the part-of-series link, as Season.parent does.
BaseType_parent_linked(i) ==
    IF claims(i, "part_of_series") = <<>> THEN NoneR
    ELSE Entity("Series", first_target(claims(i, "part_of_series")))

\* BaseType.parent, which Series inherits.
BaseType_parent(i) == NoneR

\* Episode.parent answering None, like the base class, when the season
\* statement is missing.
Episode_parent_lenient(i) ==
    IF claims(i, "season_link") = <<>> THEN NoneR
    ELSE Entity("Season", first_target(claims(i, "season_link")))

\* Episode.parent: indexing a missing property raises KeyError.
Episode_parent(i) ==
    IF claims(i, "season_link") = <<>> THEN Raise("KeyError")
    ELSE Entity("Season", first_target(claims(i, "season_link")))

\* Season.parent answering None, like the base class.
Season_parent_base(i) == NoneR

\* Season.parent.
Season_parent(i) ==
    IF claims(i, "part_of_series") = <<>> THEN Raise("KeyError")
    ELSE Entity("Series", first_target(claims(i, "part_of_series")))

\* .parent, dispatched on the wrapper class.
parent(c, i) ==
    CASE c = "Episode" -> Episode_parent(i)
      [] c = "Season" -> Season_parent(i)
      [] OTHER -> BaseType_parent(i)

----------------------------------------------------------------------------
\* Constraints.

\* The properties whose statements link items, and the field holding them.
LinkField(P) ==
    CASE P = "PART_OF_THE_SERIES" -> "part_of_series"
      [] P = "SEASON" -> "season_link"
      [] P = "FOLLOWED_BY" -> "followed_by"
      [] P = "FOLLOWS" -> "follows"
      [] P = "INSTANCE_OF" -> "instance_of"
      [] OTHER -> "props"

\* `P.pid in entity.claims`: the item has a statement for property P.
in_claims(i, P) ==
    IF LinkField(P) = "props"
    THEN \E k \in 1..Len(claims(i, "props")) : claims(i, "props")[k] = P
    ELSE claims(i, LinkField(P)) /= <<>>

Check(k, P) == [kind |-> k, prop |-> P]

\* [has_property(prop) for prop in (...)]
has_property(ps) == [k \in 1..Len(ps) |-> Check("has_property", ps[k])]

\* [inherits_property(prop) for prop in (...)]
inherits_property(ps) == [k \in 1..Len(ps) |-> Check("inherits_property", ps[k])]

follows_something == Check("follows_something", "FOLLOWS")

is_followed_by_something == Check("is_followed_by_something", "FOLLOWED_BY")

Episode_property_constraints ==
    has_property(<<"INSTANCE_OF", "TITLE", "PART_OF_THE_SERIES", "SEASON",
                   "ORIGINAL_NETWORK", "COUNTRY_OF_ORIGIN",
                   "ORIGNAL_LANGUAGE_OF_FILM_OR_TV_SHOW", "PRODUCTION_COMPANY",
                   "PUBLICATION_DATE", "DIRECTOR", "FOLLOWED_BY", "DURATION", "IMDB_ID">>)
    \o <<follows_something, is_followed_by_something>>

Episode_inheritance_constraints ==
    inherits_property(<<"ORIGINAL_NETWORK", "COUNTRY_OF_ORIGIN",
                        "ORIGNAL_LANGUAGE_OF_FILM_OR_TV_SHOW", "PRODUCTION_COMPANY">>)

Episode_constraints == Episode_property_constraints \o Episode_inheritance_constraints

Season_property_constraints ==
    has_property(<<"INSTANCE_OF", "PART_OF_THE_SERIES", "ORIGINAL_NETWORK",
                   "COUNTRY_OF_ORIGIN", "ORIGNAL_LANGUAGE_OF_FILM_OR_TV_SHOW",
                   "PRODUCTION_COMPANY", "FOLLOWS", "HAS_PART", "NUMBER_OF_EPISODES">>)
    \o <<is_followed_by_something>>

\* Season._inheritance_constraints with the last property left out.
Season_inheritance_constraints_short ==
    inherits_property(<<"ORIGINAL_NETWORK", "COUNTRY_OF_ORIGIN",
                        "ORIGNAL_LANGUAGE_OF_FILM_OR_TV_SHOW">>)

Season_inheritance_constraints ==
    inherits_property(<<"ORIGINAL_NETWORK", "COUNTRY_OF_ORIGIN",
                        "ORIGNAL_LANGUAGE_OF_FILM_OR_TV_SHOW", "PRODUCTION_COMPANY">>)

Season_constraints == Season_property_constraints \o Season_inheritance_constraints

Series_property_constraints ==
    has_property(<<"INSTANCE_OF", "TITLE", "ORIGINAL_NETWORK", "COUNTRY_OF_ORIGIN",
                   "ORIGNAL_LANGUAGE_OF_FILM_OR_TV_SHOW", "PRODUCTION_COMPANY", "IMDB_ID">>)

\* Series.constraints: the property constraints and nothing else.
Series_constraints == Series_property_constraints

\* .constraints, dispatched on the wrapper class.
constraints(c) ==
    CASE c = "Episode" -> Episode_constraints
      [] c = "Season" -> Season_constraints
      [] OTHER -> Series_constraints

\* The longest parent chain an inheritance check walks: entity, parent,
\* parent's parent.
MaxDepth == 3

\* An inheritance check: P on the entity itself, or else on its parent, and
\* so on up to the root, which has no parent; an exception raised by .parent
\* is the check's outcome.  pages are the parent pages wrapped on the way.
RECURSIVE inherits(_, _, _, _)
inherits(c, i, P, d) ==
    IF in_claims(i, P) THEN [outcome |-> "pass", pages |-> {}]
    ELSE LET pr == parent(c, i) IN
         CASE pr.tag = "none" -> [outcome |-> "fail", pages |-> {}]
           [] pr.tag = "raise" -> [outcome |-> "error", pages |-> {}]
           [] OTHER ->
                IF d <= 1 THEN [outcome |-> "error", pages |-> {pr.id}]
                ELSE LET r == inherits(pr.cls, pr.id, P, d - 1)
                     IN [outcome |-> r.outcome, pages |-> r.pages \cup {pr.id}]

\* One check evaluated against the entity of class c around item i.
evaluate(ck, c, i) ==
    CASE ck.kind = "inherits_property" -> inherits(c, i, ck.prop, MaxDepth)
      [] OTHER -> [outcome |-> IF in_claims(i, ck.prop) THEN "pass" ELSE "fail", pages |-> {}]

Result(ck, o) == [kind |-> ck.kind, prop |-> ck.prop, outcome |-> o]

\* The results of .constraints, in the order of the list.
evaluate_all(c, i) ==
    [k \in 1..Len(constraints(c)) |->
        Result(constraints(c)[k], evaluate(constraints(c)[k], c, i).outcome)]

\* The parent pages the checks of .constraints wrap.
evaluate_pages(c, i) ==
    UNION {evaluate(constraints(c)[k], c, i).pages : k \in 1..Len(constraints(c))}

----------------------------------------------------------------------------
\* Queries and the query service.

Query(k, t, se, sn, o) == [kind |-> k, target |-> t, series |-> se, season |-> sn, ordinal |-> o]

\* generate_sparql_query({FOLLOWS: title}): items with a "follows" value title.
generate_sparql_query(t) == Query("follows", t, "", "", <<>>)

\* The query text of next_in_series, built from the accessors.
in_series_query(i) ==
    Query("in_series", "", part_of_the_series(i), "", Str(ordinal_in_series(i).val + 1))

\* The query text of next_in_season.
in_season_query(i) ==
    Query("in_season", "", part_of_the_series(i), season(i), Str(ordinal_in_season(i).val + 1))

HasTarget(cl, t) == \E k \in 1..Len(cl) : cl[k].target = t

HasOrdinal(cl, o) == \E k \in 1..Len(cl) : cl[k].ordinals /= <<>> /\ cl[k].ordinals[1] = o

\* The items a reverse-lookup query selects: those with a "follows" value
\* equal to the target.
matches_follows(q) == {i \in Items : HasTarget(store[i].follows, q.target)}

\* The items the next_in_series text selects: each triple pattern must match
\* some part-of-series statement of the item (not necessarily the same one),
\* and the ordinal literal matches a qualifier character by character.
matches_in_series(q) ==
    {i \in Items : /\ HasTarget(store[i].part_of_series, q.series)
                   /\ HasOrdinal(store[i].part_of_series, q.ordinal)}

\* The items the next_in_season text selects.
matches_in_season(q) ==
    {i \in Items : /\ HasTarget(store[i].part_of_series, q.series)
                   /\ HasTarget(store[i].season_link, q.season)
                   /\ HasOrdinal(store[i].season_link, q.ordinal)}

\* The items a query selects.
Matches(q) ==
    CASE q.kind = "follows" -> matches_follows(q)
      [] q.kind = "in_series" -> matches_in_series(q)
      [] OTHER -> matches_in_season(q)

\* The possible first elements of a result sequence (the service fixes no
\* order); NoneId when the sequence is empty.
FirstOf(S) == IF S = {} THEN {NoneId} ELSE S

\* WikidataSPARQLPageGenerator(query): a fresh lazy sequence.
Generator(q, first) ==
    [query |-> q, first |-> first, size |-> Cardinality(Matches(q)), taken |-> 0, failed |-> FALSE]

FailedGenerator(q) ==
    [query |-> q, first |-> NoneId, size |-> 0, taken |-> 0, failed |-> TRUE]

\* next_gen draining the whole sequence.
next_gen_drain(g) == [g EXCEPT !.taken = g.size]

\* next(gen, None): consumes one element if there is one.
next_gen(g) == [g EXCEPT !.taken = IF g.size > g.taken THEN g.taken + 1 ELSE g.taken]

\* Wrapping the page a generator yielded: None stays None.
wrap(c, page) == IF page = NoneId THEN NoneR ELSE Entity(c, page)

\* next_forward with the forward link never looked at.
next_forward_skipped(c, i) == Pending

\* Strategy 1: the explicit forward link.
next_forward(c, i) ==
    IF claims(i, "followed_by") /= <<>>
    THEN Entity(c, first_target(claims(i, "followed_by")))
    ELSE Pending

\* next_reverse with the page the lookup yielded dropped.
next_reverse_dropped(c, page) == Pending

\* Strategy 2: what the reverse lookup's first page decides.
next_reverse(c, page) == IF page /= NoneId THEN Entity(c, page) ELSE Pending

\* query_error with the exception caught and turned into None.
query_error_swallowed(p) == [pc |-> "done", result |-> NoneR]

\* An exception raised by the query service is not caught anywhere in next.
query_error(p) == [pc |-> "done", result |-> Raise("QueryExecutionError")]

----------------------------------------------------------------------------
\* State.

Init ==
    /\ store = [i \in Items |-> NoFacts]
    /\ pc = "idle"
    /\ op = "none"
    /\ cls = "none"
    /\ gens = <<>>
    /\ attempted = <<>>
    /\ result = Pending
    /\ wrapper = "none"
    /\ fetched = [i \in Items |-> Unfetched]
    /\ report = <<>>
    /\ seen = <<>>
    /\ chain = <<>>

\* A curator adds one statement to an item, between calls and while no
\* wrapper is kept.
AddStatement(s) ==
    /\ pc = "idle"
    /\ wrapper = "none"
    /\ NumFacts(store) < MaxFacts
    /\ ~Has(store, s)
    /\ store' = [store EXCEPT ![s.item][s.prop] = Append(@, s.value)]
    /\ UNCHANGED <<pc, op, cls, gens, attempted, result, wrapper, fetched, report, seen, chain>>

\* entity.parent on a wrapper of class c.
CallParent(c) ==
    /\ pc = "idle"
    /\ wrapper \in {"none", c}
    /\ pc' = "done"
    /\ op' = "parent"
    /\ cls' = c
    /\ result' = parent(c, Subj)
    /\ fetched' = Fetch(Wrapped(parent(c, Subj)))
    /\ UNCHANGED <<store, gens, attempted, wrapper, report, seen, chain>>

\* entity.ordinal_in_series (Episode and Season).
CallOrdinalInSeries(c) ==
    /\ pc = "idle"
    /\ wrapper \in {"none", c}
    /\ pc' = "done"
    /\ op' = "ordinal_in_series"
    /\ cls' = c
    /\ result' = ordinal_in_series(Subj)
    /\ UNCHANGED <<store, gens, attempted, wrapper, fetched, report, seen, chain>>

\* episode.ordinal_in_season.
CallOrdinalInSeason ==
    /\ pc = "idle"
    /\ wrapper \in {"none", "Episode"}
    /\ pc' = "done"
    /\ op' = "ordinal_in_season"
    /\ cls' = "Episode"
    /\ result' = ordinal_in_season(Subj)
    /\ UNCHANGED <<store, gens, attempted, wrapper, fetched, report, seen, chain>>

\* entity.next, strategy 1.
NextStart(c) ==
    /\ pc = "idle"
    /\ wrapper \in {"none", c}
    /\ op' = "next"
    /\ cls' = c
    /\ attempted' = <<1>>
    /\ result' = next_forward(c, Subj)
    /\ pc' = IF next_forward(c, Subj).tag = "pending" THEN "s2" ELSE "done"
    /\ fetched' = Fetch(Wrapped(next_forward(c, Subj)))
    /\ UNCHANGED <<store, gens, wrapper, report, seen, chain>>

\* entity.next, strategy 2: the reverse lookup.
ReverseLookup ==
    /\ pc = "s2"
    /\ \E first \in FirstOf(Matches(generate_sparql_query(Subj))) :
          /\ gens' = Append(gens, next_gen(Generator(generate_sparql_query(Subj), first)))
          /\ result' = next_reverse(cls, first)
          /\ pc' = IF next_reverse(cls, first).tag = "pending" THEN "s3" ELSE "done"
    /\ attempted' = Append(attempted, 2)
    /\ UNCHANGED <<store, op, cls, wrapper, fetched, report, seen, chain>>

\* entity.next, strategy 3: ordinal_in_series is read; if it is an integer,
\* next_in_series runs and whatever it returns is returned.
OrdinalInSeries ==
    /\ pc = "s3"
    /\ LET o == ordinal_in_series(Subj) IN
       CASE o.tag = "raise" ->
               /\ result' = o
               /\ pc' = "done"
               /\ UNCHANGED <<gens, attempted>>
         [] o.tag = "none" ->
               /\ result' = IF cls = "Episode" THEN Pending ELSE NoneR
               /\ pc' = IF cls = "Episode" THEN "s4" ELSE "done"
               /\ UNCHANGED <<gens, attempted>>
         [] OTHER ->
               \E first \in FirstOf(Matches(in_series_query(Subj))) :
                  /\ gens' = Append(gens, next_gen(Generator(in_series_query(Subj), first)))
                  /\ result' = wrap(cls, first)
                  /\ pc' = "done"
                  /\ attempted' = Append(attempted, 3)
    /\ UNCHANGED <<store, op, cls, wrapper, fetched, report, seen, chain>>

\* episode.next, strategy 4: ordinal_in_season is read; if it is an integer,
\* next_in_season runs.
OrdinalInSeason ==
    /\ pc = "s4"
    /\ LET o == ordinal_in_season(Subj) IN
       CASE o.tag = "raise" ->
               /\ result' = o
               /\ UNCHANGED <<gens, attempted>>
         [] o.tag = "none" ->
               /\ result' = NoneR
               /\ UNCHANGED <<gens, attempted>>
         [] OTHER ->
               \E first \in FirstOf(Matches(in_season_query(Subj))) :
                  /\ gens' = Append(gens, next_gen(Generator(in_season_query(Subj), first)))
                  /\ result' = wrap(cls, first)
                  /\ attempted' = Append(attempted, 4)
    /\ pc' = "done"
    /\ UNCHANGED <<store, op, cls, wrapper, fetched, report, seen, chain>>

\* The query a strategy is about to issue, if any.
PendingQuery ==
    CASE pc = "s2" -> generate_sparql_query(Subj)
      [] pc = "s3" /\ ordinal_in_series(Subj).tag = "int" -> in_series_query(Subj)
      [] pc = "s4" /\ ordinal_in_season(Subj).tag = "int" -> in_season_query(Subj)
      [] OTHER -> Query("none", "", "", "", <<>>)

\* The query service fails while a strategy's query runs.
QueryFails ==
    /\ PendingQuery.kind /= "none"
    /\ gens' = Append(gens, FailedGenerator(PendingQuery))
    /\ attempted' = Append(attempted, CASE pc = "s2" -> 2 [] pc = "s3" -> 3 [] OTHER -> 4)
    /\ result' = query_error(pc).result
    /\ pc' = query_error(pc).pc
    /\ UNCHANGED <<store, op, cls, wrapper, fetched, report, seen, chain>>

\* The caller takes the outcome; the next call starts afresh.  A kept
\* wrapper stays as it is, and the caller remembers the last report of
\* constraint results it was given.
Return ==
    /\ pc = "done"
    /\ pc' = "idle"
    /\ op' = "none"
    /\ cls' = "none"
    /\ gens' = <<>>
    /\ attempted' = <<>>
    /\ result' = Pending
    /\ report' = <<>>
    /\ chain' = <<>>
    /\ seen' = IF op = "constraints" /\ wrapper /= "none" THEN report ELSE seen
    /\ UNCHANGED <<store, wrapper, fetched>>

Next ==
    \/ \E s \in Vocabulary : AddStatement(s)
    \/ \E c \in {"Episode", "Season", "Series"} : CallParent(c)
    \/ \E c \in {"Episode", "Season"} : CallOrdinalInSeries(c)
    \/ CallOrdinalInSeason
    \/ \E c \in {"Episode", "Season"} : NextStart(c)
    \/ ReverseLookup
    \/ OrdinalInSeries
    \/ OrdinalInSeason
    \/ Return

Spec == Init /\ [][Next]_vars

NextFail == Next \/ QueryFails

SpecFail == Init /\ [][NextFail]_vars

----------------------------------------------------------------------------
\* Kept wrappers, constraints and walks up the parent chain, with curators
\* editing the graph at any time between calls.

\* The statements curators may assert while wrappers are in use: parent
\* links that form the chain Q1 -> Q5 -> Q4, links that point back at the
\* episode itself or at an item of the wrong kind, inheritable properties at
\* each level, a label and explicit neighbours.
EntityVocabulary ==
    { Statement("Q1", "season_link", Link("Q5")),
      Statement("Q1", "season_link", Link("Q1")),
      Statement("Q1", "part_of_series", Link("Q4")),
      Statement("Q1", "part_of_series", Link("Q1")),
      Statement("Q5", "part_of_series", Link("Q4")),
      Statement("Q5", "part_of_series", Link("Q1")),
      Statement("Q1", "props", "ORIGINAL_NETWORK"),
      Statement("Q5", "props", "ORIGINAL_NETWORK"),
      Statement("Q4", "props", "ORIGINAL_NETWORK"),
      Statement("Q1", "props", "PRODUCTION_COMPANY"),
      Statement("Q4", "props", "PRODUCTION_COMPANY"),
      Statement("Q1", "labels", "en"),
      Statement("Q1", "followed_by", Link("Q2")),
      Statement("Q3", "follows", Link("Q1")) }

\* Most statements the graph holds while wrappers are in use.
MaxEdits == 3

\* Most entities a caller follows .parent through before giving up.
MaxWalk == 5

Text(i, t) == [tag |-> "text", cls |-> t, id |-> i, val |-> 0, exc |-> ""]
ListR(n) == [tag |-> "list", cls |-> "", id |-> "", val |-> n, exc |-> ""]

\* BaseType.label: the English label; indexing a missing one raises KeyError.
label(i) ==
    IF \E k \in 1..Len(content(i).labels) : content(i).labels[k] = "en"
    THEN Text(i, "label")
    ELSE Raise("KeyError")

\* BaseType.title: the identifier of the item page.
title(i) == Text(i, "title")

\* A curator adds one statement to an item, whether or not a wrapper is kept.
EditStatement(s) ==
    /\ pc = "idle"
    /\ NumFacts(store) < MaxEdits
    /\ ~Has(store, s)
    /\ store' = [store EXCEPT ![s.item][s.prop] = Append(@, s.value)]
    /\ seen' = IF s.item = Subj THEN <<>> ELSE seen
    /\ UNCHANGED <<pc, op, cls, gens, attempted, result, wrapper, fetched, report, chain>>

\* cls.from_id(Subj): a wrapper of class c is built around a new page object
\* and kept; its constructor fetches the item.
Construct(c) ==
    /\ pc = "idle"
    /\ wrapper = "none"
    /\ wrapper' = c
    /\ fetched' = [i \in Items |->
                     IF i = Subj THEN [loaded |-> TRUE, facts |-> store[i]] ELSE Unfetched]
    /\ seen' = <<>>
    /\ UNCHANGED <<store, pc, op, cls, gens, attempted, result, report, chain>>

\* The caller drops the wrapper, and with it every page object it held.
Discard ==
    /\ pc = "idle"
    /\ wrapper /= "none"
    /\ wrapper' = "none"
    /\ fetched' = [i \in Items |-> Unfetched]
    /\ seen' = <<>>
    /\ UNCHANGED <<store, pc, op, cls, gens, attempted, result, report, chain>>

\* entity.constraints on a wrapper of class c, every check of the list
\* evaluated in order.
CallConstraints(c) ==
    /\ pc = "idle"
    /\ wrapper \in {"none", c}
    /\ pc' = "done"
    /\ op' = "constraints"
    /\ cls' = c
    /\ report' = evaluate_all(c, Subj)
    /\ fetched' = Fetch(evaluate_pages(c, Subj))
    /\ result' = IF \E k \in 1..Len(constraints(c)) :
                       evaluate(constraints(c)[k], c, Subj).outcome = "error"
                 THEN Raise("KeyError")
                 ELSE ListR(Len(constraints(c)))
    /\ UNCHANGED <<store, gens, attempted, wrapper, seen, chain>>

\* entity.label writing the wrapper's facts back to the item as it reads.
CallLabel_writing(c) ==
    /\ pc = "idle"
    /\ wrapper \in {"none", c}
    /\ pc' = "done"
    /\ op' = "label"
    /\ cls' = c
    /\ result' = label(Subj)
    /\ store' = [store EXCEPT ![Subj] = content(Subj)]
    /\ UNCHANGED <<gens, attempted, wrapper, fetched, report, seen, chain>>

\* entity.label
CallLabel(c) ==
    /\ pc = "idle"
    /\ wrapper \in {"none", c}
    /\ pc' = "done"
    /\ op' = "label"
    /\ cls' = c
    /\ result' = label(Subj)
    /\ UNCHANGED <<store, gens, attempted, wrapper, fetched, report, seen, chain>>

\* entity.title
CallTitle(c) ==
    /\ pc = "idle"
    /\ wrapper \in {"none", c}
    /\ pc' = "done"
    /\ op' = "title"
    /\ cls' = c
    /\ result' = title(Subj)
    /\ UNCHANGED <<store, gens, attempted, wrapper, fetched, report, seen, chain>>

\* entity.claims: the statements of the fetched item.
CallClaims(c) ==
    /\ pc = "idle"
    /\ wrapper \in {"none", c}
    /\ pc' = "done"
    /\ op' = "claims"
    /\ cls' = c
    /\ result' = Text(Subj, "claims")
    /\ UNCHANGED <<store, gens, attempted, wrapper, fetched, report, seen, chain>>

\* A caller starts following .parent from a wrapper of class c.
WalkStart(c) ==
    /\ pc = "idle"
    /\ wrapper \in {"none", c}
    /\ pc' = "walk"
    /\ op' = "walk"
    /\ cls' = c
    /\ chain' = <<Entity(c, Subj)>>
    /\ UNCHANGED <<store, gens, attempted, result, wrapper, fetched, report, seen>>

\* .parent of the last entity reached: the walk goes on with the entity it
\* returns and ends when it returns None or raises.
WalkStep ==
    /\ pc = "walk"
    /\ Len(chain) < MaxWalk
    /\ LET e == chain[Len(chain)]
           pr == parent(e.cls, e.id)
       IN IF pr.tag = "entity"
          THEN /\ chain' = Append(chain, pr)
               /\ fetched' = Fetch({pr.id})
               /\ UNCHANGED <<pc, result>>
          ELSE /\ pc' = "done"
               /\ result' = pr
               /\ UNCHANGED <<chain, fetched>>
    /\ UNCHANGED <<store, op, cls, gens, attempted, wrapper, report, seen>>

Classes == {"Episode", "Season", "Series"}

NextEntity ==
    \/ \E s \in EntityVocabulary : EditStatement(s)
    \/ \E c \in Classes : Construct(c)
    \/ Discard
    \/ \E c \in Classes : CallConstraints(c)
    \/ \E c \in Classes : CallLabel(c)
    \/ \E c \in Classes : CallTitle(c)
    \/ \E c \in Classes : CallClaims(c)
    \/ \E c \in Classes : WalkStart(c)
    \/ WalkStep
    \/ \E c \in Classes : CallParent(c)
    \/ \E c \in {"Episode", "Season"} : CallOrdinalInSeries(c)
    \/ CallOrdinalInSeason
    \/ \E c \in {"Episode", "Season"} : NextStart(c)
    \/ ReverseLookup
    \/ OrdinalInSeries
    \/ OrdinalInSeason
    \/ Return

SpecEntity == Init /\ [][NextEntity]_vars

----------------------------------------------------------------------------
\* Properties.

\* The items asserting a "follows" statement whose target is the subject.
Followers == {i \in Items : \E k \in 1..Len(store[i].follows) : store[i].follows[k].target = Subj}

NextDone == op = "next" /\ pc = "done"

\* C1: when the subject has a "followed by" statement, .next issues no query
\* at any point of the call, looks at strategy 1 only, and returns the target
\* of the first "followed by" value wrapped in the caller's class.
C1_ForwardLinkShortCircuits ==
    (op = "next" /\ store[Subj].followed_by /= <<>>) =>
        /\ gens = <<>>
        /\ attempted = <<1>>
        /\ pc = "done"
        /\ result = Entity(cls, store[Subj].followed_by[1].target)

\* C1 witness: a finished call on a subject with two forward values, a
\* follower and a series ordinal, answered from the first forward value.
C1_Witness ==
    /\ NextDone
    /\ Len(store[Subj].followed_by) = 2
    /\ Followers /= {}
    /\ ordinal_in_series(Subj).tag = "int"
    /\ result.tag = "entity"

\* C2: an Episode.next that returns absent has attempted every applicable
\* strategy: in particular, with a resolvable ordinal in season, strategy 4
\* was attempted even if the ordinal-in-series query yielded nothing.
C2_AbsentOnlyAfterAllStrategies ==
    (NextDone /\ cls = "Episode" /\ result = NoneR
        /\ ordinal_in_season(Subj).tag = "int") =>
        \E k \in 1..Len(attempted) : attempted[k] = 4

\* C3: with no "followed by" statement and at least one item following the
\* subject, .next returns one of the followers, the first page of the single
\* reverse-lookup query, whatever ordinals the subject carries.
C3_ReverseLookupReturnsFollower ==
    (NextDone /\ store[Subj].followed_by = <<>> /\ Followers /= {}) =>
        /\ result.tag = "entity"
        /\ result.cls = cls
        /\ result.id \in Followers
        /\ Len(gens) = 1
        /\ gens[1].query.kind = "follows"
        /\ result.id = gens[1].first

\* C3 witness: two followers and an ordinal on the subject's series link.
C3_Witness ==
    /\ NextDone
    /\ store[Subj].followed_by = <<>>
    /\ Cardinality(Followers) = 2
    /\ store[Subj].part_of_series /= <<>>
    /\ store[Subj].part_of_series[1].ordinals /= <<>>
    /\ result.tag = "entity"

\* The largest ordinal value the properties spell out.
MaxOrdinal == 9

RECURSIVE StripZeros(_)
StripZeros(s) == IF Len(s) > 1 /\ s[1] = "0" THEN StripZeros(Tail(s)) ELSE s

\* The text s is a decimal numeral of the natural number n.
Denotes(s, n) == StripZeros(s) = Str(n)

\* The exceptions that stand for the malformed-data error: a missing
\* property (KeyError) and an unparseable integer (ValueError).
MalformedDataError == {"KeyError", "ValueError"}

\* C4: with no forward link, no follower and ordinalInSeries = N, .next
\* returns an item of the same series whose ordinalInSeries is N+1 if there
\* is one, and absent otherwise.
SeriesSuccessors ==
    {i \in Items : /\ HasTarget(store[i].part_of_series, part_of_the_series(Subj))
                   /\ ordinal_in_series(i) = IntR(ordinal_in_series(Subj).val + 1)}

C4_NextInSeriesFindsSuccessor ==
    (NextDone /\ store[Subj].followed_by = <<>> /\ Followers = {}
        /\ ordinal_in_series(Subj).tag = "int") =>
        IF SeriesSuccessors /= {}
        THEN result.tag = "entity" /\ result.id \in SeriesSuccessors
        ELSE result = NoneR

\* C5: for an Episode with no forward link, no follower, no series ordinal
\* and ordinalInSeason = N, .next returns an episode of the same season whose
\* ordinalInSeason is N+1 if there is one, and absent otherwise (also when
\* the episodes carry nothing but their season link).
SeasonSuccessors ==
    {i \in Items : /\ HasTarget(store[i].season_link, season(Subj))
                   /\ ordinal_in_season(i) = IntR(ordinal_in_season(Subj).val + 1)}

C5_NextInSeasonFindsSuccessor ==
    (NextDone /\ cls = "Episode" /\ store[Subj].followed_by = <<>> /\ Followers = {}
        /\ ordinal_in_series(Subj) = NoneR /\ ordinal_in_season(Subj).tag = "int") =>
        IF SeasonSuccessors /= {}
        THEN result.tag = "entity" /\ result.id \in SeasonSuccessors
        ELSE result = NoneR

\* C6: Series.parent is None; Episode.parent (Season.parent) raises the
\* malformed-data error when the season (part-of-series) statement is
\* missing, and otherwise returns the target of its first value as a Season
\* (a Series).
C6_Parent ==
    (op = "parent" /\ pc = "done") =>
        CASE cls = "Series" -> result = NoneR
          [] cls = "Episode" ->
                IF store[Subj].season_link = <<>>
                THEN result.tag = "raise" /\ result.exc \in MalformedDataError
                ELSE result = Entity("Season", store[Subj].season_link[1].target)
          [] OTHER ->
                IF store[Subj].part_of_series = <<>>
                THEN result.tag = "raise" /\ result.exc \in MalformedDataError
                ELSE result = Entity("Series", store[Subj].part_of_series[1].target)

\* C6 witness: Episode.parent on a subject that has a series link but no
\* season link has raised.
C6_Witness ==
    /\ op = "parent" /\ pc = "done" /\ cls = "Episode"
    /\ store[Subj].season_link = <<>>
    /\ store[Subj].part_of_series /= <<>>
    /\ result.tag = "raise"

\* C7: during .next every strategy after the first that is attempted has
\* issued exactly one query, of its own kind, and taken at most one element
\* of the result; an Episode issues at most three queries and a Season at
\* most two; a result found by a query is the first element of the last
\* query's result, whatever else matched.
StrategyKind(n) == CASE n = 2 -> "follows" [] n = 3 -> "in_series" [] OTHER -> "in_season"

C7_OneQueryPerStrategy ==
    op = "next" =>
        /\ Len(gens) = Len(attempted) - 1
        /\ \A k \in 1..Len(gens) :
              /\ gens[k].taken <= 1
              /\ gens[k].query.kind = StrategyKind(attempted[k + 1])
              /\ k < Len(gens) => gens[k].taken = 0
        /\ Len(gens) <= IF cls = "Episode" THEN 3 ELSE 2
        /\ (pc = "done" /\ result.tag = "entity" /\ gens /= <<>>) =>
              /\ gens[Len(gens)].taken = 1
              /\ result.id = gens[Len(gens)].first

\* C7 witness: an ordinal query matched two items and one was taken.
C7_Witness ==
    /\ NextDone
    /\ Len(gens) = 2
    /\ gens[2].size = 2
    /\ gens[2].taken = 1
    /\ result.tag = "entity"

\* C8: once a query has failed, the call is over with the query error as its
\* outcome: the failed query is the last one issued (no retry, no later
\* strategy) and the outcome is neither None nor an entity.
C8_QueryFailureSurfaces ==
    \A k \in 1..Len(gens) :
        gens[k].failed =>
            /\ k = Len(gens)
            /\ pc = "done"
            /\ result = Raise("QueryExecutionError")
            /\ \A j \in 1..(k - 1) : gens[j].query /= gens[k].query

\* C8 witness: the second query of a call failed.
C8_Witness ==
    /\ NextDone
    /\ Len(gens) = 2
    /\ gens[2].failed
    /\ result.tag = "raise"

\* The statements an ordinal accessor call has read.
OrdinalClaims ==
    IF op = "ordinal_in_season" THEN store[Subj].season_link ELSE store[Subj].part_of_series

OrdinalDone == op \in {"ordinal_in_series", "ordinal_in_season"} /\ pc = "done"

\* C9: an ordinal accessor returns None exactly when the parent link is
\* missing or its first value has no ordinal qualifier, and returns n when
\* the qualifier of the first value is a decimal numeral of n.
C9_OrdinalOfFirstValue ==
    OrdinalDone =>
        /\ result = NoneR <=>
              (OrdinalClaims = <<>> \/ OrdinalClaims[1].ordinals = <<>>)
        /\ (OrdinalClaims /= <<>> /\ OrdinalClaims[1].ordinals /= <<>>) =>
              \A n \in 0..MaxOrdinal :
                  Denotes(OrdinalClaims[1].ordinals[1], n) => result = IntR(n)

\* C9 witness: the first of two series values carries "01", the second a
\* different qualifier, and the accessor returned 1.
C9_Witness ==
    /\ OrdinalDone
    /\ Len(OrdinalClaims) = 2
    /\ OrdinalClaims[1].ordinals = << <<"0", "1">> >>
    /\ OrdinalClaims[2].ordinals /= OrdinalClaims[1].ordinals
    /\ result = IntR(1)

\* C10: when the qualifier of the first value contains a character that is
\* neither a digit nor a sign, the accessor raises the malformed-data error:
\* it returns neither None nor an integer.
C10_NonNumericOrdinalRaises ==
    (OrdinalDone /\ OrdinalClaims /= <<>> /\ OrdinalClaims[1].ordinals /= <<>>
        /\ \E k \in 1..Len(OrdinalClaims[1].ordinals[1]) :
              /\ ~IsDigit(OrdinalClaims[1].ordinals[1][k])
              /\ OrdinalClaims[1].ordinals[1][k] \notin {"+", "-"}) =>
        /\ result.tag = "raise"
        /\ result.exc \in MalformedDataError

\* C10 witness: ordinal_in_season on a season link qualified "1a" has raised.
C10_Witness ==
    /\ OrdinalDone
    /\ op = "ordinal_in_season"
    /\ OrdinalClaims /= <<>>
    /\ OrdinalClaims[1].ordinals = << <<"1", "a">> >>
    /\ result.tag = "raise"

\* C16: every ordinal-successor query .next issues is built from defined
\* identifiers: an in-series query has a series identifier, and an in-season
\* query has both a series identifier and a season identifier.
C16_QueryIdentifiersDefined ==
    op = "next" =>
        \A k \in 1..Len(gens) :
            /\ gens[k].query.kind = "in_series" => gens[k].query.series /= NoneId
            /\ gens[k].query.kind = "in_season" =>
                  /\ gens[k].query.series /= NoneId
                  /\ gens[k].query.season /= NoneId

\* The ordinal qualifier of the first statement of a parent link is missing
\* (no statement, or a first statement without the qualifier).
OrdinalAbsent(cl) == cl = <<>> \/ cl[1].ordinals = <<>>

\* The qualifier is there and its text is not a number.
OrdinalMalformed(cl) == ~OrdinalAbsent(cl) /\ ~ParseInt(cl[1].ordinals[1]).ok

\* C17: Episode.next ends with a malformed-data error exactly when the
\* episode has no forward link, no item follows it, and either its series
\* ordinal qualifier is non-numeric, or the series ordinal is absent and its
\* season ordinal qualifier is non-numeric; a malformed qualifier that is
\* not consulted changes nothing.
C17_MalformedOrdinalOnlyWhenConsulted ==
    (NextDone /\ cls = "Episode") =>
        ((result.tag = "raise" /\ result.exc \in MalformedDataError)
            <=> /\ store[Subj].followed_by = <<>>
                /\ Followers = {}
                /\ \/ OrdinalMalformed(store[Subj].part_of_series)
                   \/ /\ OrdinalAbsent(store[Subj].part_of_series)
                      /\ OrdinalMalformed(store[Subj].season_link))

\* C17 witnesses: a call that failed on the season qualifier, the series
\* statement carrying no ordinal; and one with a malformed season qualifier
\* that was not consulted, because a numeric series ordinal came first.
C17_Witness ==
    /\ NextDone /\ cls = "Episode"
    /\ result = Raise("ValueError")
    /\ store[Subj].part_of_series /= <<>>
    /\ OrdinalAbsent(store[Subj].part_of_series)
    /\ OrdinalMalformed(store[Subj].season_link)

C17_WitnessNotConsulted ==
    /\ NextDone /\ cls = "Episode"
    /\ result.tag /= "raise"
    /\ Len(attempted) = 3
    /\ OrdinalMalformed(store[Subj].season_link)

\* The kind of item a wrapper class stands for.
KindOf(c) == CASE c = "Episode" -> "episode" [] c = "Season" -> "season" [] OTHER -> "series"

\* C15: the entity .next returns is a sibling of the caller's kind: the item
\* behind it is not asserted to be of another kind (an Episode's successor
\* is not a season or a series, a Season's successor is not an episode),
\* whichever strategy found it.
C15_NextIsSameKind ==
    (NextDone /\ result.tag = "entity") =>
        \A k \in 1..Len(store[result.id].instance_of) :
            store[result.id].instance_of[k] = KindOf(cls)

ConstraintsDone == op = "constraints" /\ pc = "done"

\* Property P has a value among the facts the wrappers hold for item i.
PresentOn(i, P) == \E k \in 1..Len(content(i).props) : content(i).props[k] = P

\* The episode has a season: the target of its first season statement.
HasSeason == content(Subj).season_link /= <<>>
SeasonOf == content(Subj).season_link[1].target

\* That season has a series: the target of its first part-of-series statement.
HasSeries == HasSeason /\ content(SeasonOf).part_of_series /= <<>>
SeriesOf == content(SeasonOf).part_of_series[1].target

\* C11: an inheritance check for P evaluated on an Episode passes if P is
\* present on the Episode itself, on its Season or on that Season's Series,
\* and its outcome is "fail" (a boolean outcome, not an error) only if the
\* Season and the Series exist and P is absent on all three.
C11_InheritsAlongChain ==
    (ConstraintsDone /\ cls = "Episode") =>
        \A k \in 1..Len(report) :
            report[k].kind = "inherits_property" =>
                LET P == report[k].prop IN
                /\ ( \/ PresentOn(Subj, P)
                     \/ HasSeason /\ PresentOn(SeasonOf, P)
                     \/ HasSeries /\ PresentOn(SeriesOf, P) )
                      => report[k].outcome = "pass"
                /\ report[k].outcome = "fail" =>
                      /\ ~PresentOn(Subj, P)
                      /\ HasSeason /\ ~PresentOn(SeasonOf, P)
                      /\ HasSeries /\ ~PresentOn(SeriesOf, P)

\* C11 witness: an Episode's report in which one inheritance check passed on
\* the strength of the Series alone, and another failed down the same chain.
C11_Witness ==
    /\ ConstraintsDone /\ cls = "Episode"
    /\ HasSeries
    /\ SeasonOf /= Subj /\ SeriesOf /= SeasonOf /\ SeriesOf /= Subj
    /\ \E k \in 1..Len(report) :
          /\ report[k].kind = "inherits_property"
          /\ report[k].outcome = "pass"
          /\ ~PresentOn(Subj, report[k].prop)
          /\ ~PresentOn(SeasonOf, report[k].prop)
          /\ PresentOn(SeriesOf, report[k].prop)
    /\ \E k \in 1..Len(report) :
          /\ report[k].kind = "inherits_property"
          /\ report[k].outcome = "fail"

\* The four properties expected to be inheritable down the chain.
Inheritable ==
    <<"ORIGINAL_NETWORK", "COUNTRY_OF_ORIGIN",
      "ORIGNAL_LANGUAGE_OF_FILM_OR_TV_SHOW", "PRODUCTION_COMPANY">>

IsInherit(r) == r.kind = "inherits_property"
IsPresence(r) == r.kind = "has_property"
IsRelation(r) == r.kind \in {"follows_something", "is_followed_by_something"}

\* The properties (the kinds) of a sequence of check results, in order.
PropsOf(rs) == [k \in 1..Len(rs) |-> rs[k].prop]
KindsOf(rs) == [k \in 1..Len(rs) |-> rs[k].kind]

\* C12 as stated: the list of every variant, Series included, holds
\* inheritance checks for exactly the four inheritable properties, and the
\* lists of Season and Episode hold relation-existence checks.
C12_EveryVariantInherits ==
    ConstraintsDone =>
        /\ PropsOf(SelectSeq(report, IsInherit)) = Inheritable
        /\ cls \in {"Season", "Episode"} => SelectSeq(report, IsRelation) /= <<>>

\* C12, amended: .constraints is a fixed ordered list whatever the facts:
\* the kind-specific property-presence checks first (13 for an Episode, 9
\* for a Season, 7 for a Series, no property twice), then the
\* relation-existence checks (follows and is-followed-by for an Episode,
\* is-followed-by for a Season, none for a Series), then the inheritance
\* checks, which are those of the four inheritable properties in their order
\* for Season and Episode and none for a Series, whose presence checks
\* already cover the four.
C12_FixedConstraintList ==
    ConstraintsDone =>
        LET presence == SelectSeq(report, IsPresence)
            relation == SelectSeq(report, IsRelation)
            inherit == SelectSeq(report, IsInherit)
        IN /\ report = presence \o relation \o inherit
           /\ Len(presence) = CASE cls = "Episode" -> 13 [] cls = "Season" -> 9 [] OTHER -> 7
           /\ \A j, k \in 1..Len(presence) : presence[j].prop = presence[k].prop => j = k
           /\ KindsOf(relation) =
                 CASE cls = "Episode" -> <<"follows_something", "is_followed_by_something">>
                   [] cls = "Season" -> <<"is_followed_by_something">>
                   [] OTHER -> <<>>
           /\ PropsOf(inherit) = IF cls = "Series" THEN <<>> ELSE Inheritable
           /\ cls = "Series" =>
                 \A k \in 1..Len(Inheritable) :
                    \E j \in 1..Len(presence) : presence[j].prop = Inheritable[k]

\* C12 witness: the report of a Series that has one of the inheritable
\* properties: a presence check passed, and no inheritance check was made.
C12_Witness ==
    /\ ConstraintsDone /\ cls = "Series"
    /\ PresentOn(Subj, "ORIGINAL_NETWORK")
    /\ \E k \in 1..Len(report) : report[k].outcome = "pass"
    /\ \E k \in 1..Len(report) : report[k].outcome = "fail"
    /\ SelectSeq(report, IsInherit) = <<>>

C14_ParentChainReachesAbsent ==
    (op = "walk" /\ pc = "done") => (result = NoneR /\ Len(chain) <= 3)

\* C14, amended: following .parent from any entity, whatever the graph holds
\* (links in a cycle or to an item of the wrong kind included), takes at
\* most two steps, each from an Episode to a Season or from a Season to a
\* Series, and then ends: with an absent value at a Series, or with the
\* malformed-data error at an Episode or Season whose parent link is
\* missing.  The depth bound of 3 is never reached by a fourth entity.
C14_ParentChainEnds ==
    op = "walk" =>
        /\ Len(chain) <= 3
        /\ chain[1] = Entity(cls, Subj)
        /\ \A k \in 2..Len(chain) :
              \/ chain[k - 1].cls = "Episode" /\ chain[k].cls = "Season"
              \/ chain[k - 1].cls = "Season" /\ chain[k].cls = "Series"
        /\ pc = "done" =>
              LET last == chain[Len(chain)] IN
              \/ result = NoneR /\ last.cls = "Series"
              \/ /\ result.tag = "raise" /\ result.exc \in MalformedDataError
                 /\ \/ last.cls = "Episode" /\ content(last.id).season_link = <<>>
                    \/ last.cls = "Season" /\ content(last.id).part_of_series = <<>>

\* C14 witness: a walk over links that lead back to the episode itself ended
\* with an absent value after two steps.
C14_Witness ==
    /\ op = "walk" /\ pc = "done"
    /\ chain = <<Entity("Episode", Subj), Entity("Season", Subj), Entity("Series", Subj)>>
    /\ result = NoneR

\* C18: no step of an operation (.next, .parent, .constraints, the ordinal
\* accessors, label, title, claims, a walk up the parents), from its call
\* to its return, changes the store, the facts the entity holds, or the
\* class and item of the wrapper.
C18_OperationsWriteNothing ==
    [][(pc /= "idle" \/ pc' /= "idle") =>
          /\ store' = store
          /\ wrapper' = wrapper
          /\ fetched'[Subj] = fetched[Subj]]_vars

\* C18 witness: a kept wrapper that has been through .constraints, a parent
\* lookup and a .next that queried the service, still holding the facts it
\* fetched, which the curators have changed in the store since.
C18_Witness ==
    /\ pc = "done" /\ op = "next" /\ gens /= <<>>
    /\ wrapper /= "none"
    /\ seen /= <<>>
    /\ \E i \in Items \ {Subj} : fetched[i].loaded
    /\ fetched[Subj].facts /= store[Subj]

====
